---- MODULE Spec2Model ----
(***************************************************************************)
(* Supplier risk evaluation pipeline: the LangGraph workflow of            *)
(* workflows/evaluation_workflow.py and the five agents it sequences.      *)
(*                                                                         *)
(* Python values are modelled as follows.  A dict is a function whose      *)
(* DOMAIN is its set of keys; a list is a sequence; a JSON scalar whose    *)
(* type the code depends on is a tagged record [t, v].  print and logger   *)
(* calls are no-ops.  A reasoning call (OpenAI) and every provider call    *)
(* is an input of the step that makes it, drawn from a small set of        *)
(* outcomes.                                                               *)
(***************************************************************************)
EXTENDS Integers, Sequences, FiniteSets, TLC

VARIABLES
    env,                   \* fault hypothesis of the run: "code", "stage_fault", "graph_fault"
    pc,                    \* position of evaluate_supplier / the graph
    ran,                   \* history: the nodes executed so far, in order
    reasoning_failed,      \* history: stages whose reasoning call raised or did not parse
    supplier_name, supplier_country, business_context,
    document_paths, registration_number, owner_names,
    evaluation_plan, document_analysis, rag_answers,
    external_intelligence, final_decision,
    workflow_status, errors, started_at, completed_at,
    documents_content,     \* history: the list analyze_documents hands to its reasoning call
    calls,                 \* history: the calls the document and policy stages made
    call,                  \* a tool function applied on its own: its name and arguments
    result                 \* ... and what it returned

identity == <<supplier_name, supplier_country, business_context,
              document_paths, registration_number, owner_names>>
outputs  == <<evaluation_plan, document_analysis, rag_answers,
              external_intelligence, final_decision>>
meta     == <<workflow_status, errors, started_at, completed_at>>
history  == <<ran, reasoning_failed, documents_content, calls>>
harness  == <<call, result>>
vars     == <<env, pc, history, identity, outputs, meta, harness>>

----------------------------------------------------------------------------
(* Python values *)

EmptyDict == [k \in {} |-> TRUE]                  \* {}
Str(s)    == [t |-> "str", v |-> s]
Num(s)    == [t |-> "num", v |-> s]               \* s: the decimal numeral

HasKey(d, k) == k \in DOMAIN d
Get(d, k, default) == IF k \in DOMAIN d THEN d[k] ELSE default     \* dict.get(k, default)

SeqToSet(s) == {s[i] : i \in DOMAIN s}

\* A task of a plan: a string, given by its words, or a non-string JSON value.
StrTask(words) == [t |-> "str", v |-> words]
ObjTask        == [t |-> "obj", v |-> <<>>]

----------------------------------------------------------------------------
(* Agent 1: PlannerAgent.create_evaluation_plan *)

FallbackTasks(name, country) ==
    << StrTask(<<"Verify", name, "company", "registration", "in", country>>),
       StrTask(<<"Extract", "and", "validate", "key", "information", "from", "submitted", "documents">>),
       StrTask(<<"Check", "compliance", "with", "export", "regulations", "and", "licenses">>),
       StrTask(<<"Search", "for", "recent", "news", "articles", "and", "media", "coverage">>),
       StrTask(<<"Check", "international", "sanctions", "and", "watchlists">>),
       StrTask(<<"Assess", "financial", "health", "from", "available", "documents">>),
       StrTask(<<"Identify", "any", "red", "flags", "or", "inconsistencies">>) >>

fallback_plan(name, country) ==
    [tasks |-> FallbackTasks(name, country),
     reasoning |-> "Generic evaluation plan (API call failed)"]

\* The replies of the planning call that json.loads turns into an object.
PlannerTaskLists ==
    { <<>>,
      << StrTask(<<"Search", "news">>), StrTask(<<"Review", "OECD", "guidance">>) >>,
      << StrTask(<<"Compliance", "check">>), ObjTask >>,
      << StrTask(<<"Search", "news">>) >>,
      << ObjTask >> }

PlannerReplies ==
    { [tasks |-> ts, reasoning |-> "llm"] : ts \in PlannerTaskLists }
    \cup { [reasoning |-> "llm"] }

\* Outcomes of lines 115-133: the API call raises, the content is not JSON,
\* 'tasks' is a value len() rejects (null, a number), or an object is parsed.
PlannerLLM ==
    { [kind |-> k, reply |-> EmptyDict] : k \in {"api_error", "bad_json", "bad_tasks"} }
    \cup { [kind |-> "json", reply |-> r] : r \in PlannerReplies }

PlannerCallFailed(llm) == llm.kind # "json"

\* The handler of lines 137-155 returning an empty plan instead of the generic one.
create_evaluation_plan_empty(name, country, llm) ==
    IF llm.kind = "json" THEN llm.reply
    ELSE [tasks |-> <<>>, reasoning |-> "Generic evaluation plan (API call failed)"]

create_evaluation_plan(name, country, llm) ==
    IF llm.kind = "json" THEN llm.reply
    ELSE fallback_plan(name, country)

----------------------------------------------------------------------------
(* MCP-1 document tools and Agent 2: DocumentAgent.analyze_documents *)

TextCap == 10000          \* text[:10000]

Min(a, b) == IF a <= b THEN a ELSE b

\* read_pdf never raises: it returns a dict, 'success' False with an 'error'
\* when the file cannot be read.  The text is modelled by its length.
ReadPdfResults ==
    { [t |-> "dict", success |-> TRUE,  text |-> n, error |-> ""] : n \in {TextCap - 1, TextCap + 1} }
    \cup { [t |-> "dict", success |-> FALSE, text |-> 0, error |-> "File not found"] }

\* extract_tables returns a dict as well.
ExtractTablesResults ==
    { [t |-> "dict", success |-> TRUE, table_count |-> n] : n \in {0, 1} }

\* value[:n]: defined on a str, raises on a dict (TypeError, KeyError from 3.12).
PySlice(value, n) ==
    IF value.t = "str" THEN [raised |-> FALSE, v |-> Min(value.v, n)]
    ELSE [raised |-> TRUE, v |-> 0]

\* len(value) of a dict is its number of keys.
PyLen(value) == IF value.t = "dict" THEN Cardinality(DOMAIN value) - 1 ELSE Len(value.v)

\* One iteration of the loop of lines 87-110.
document_entry(doc_path, pdf, tables) ==
    LET sl == PySlice(pdf, TextCap) IN
    IF sl.raised
    THEN [filename |-> doc_path, text |-> 0, error |-> "slice of dict"]
    ELSE [filename |-> doc_path, text |-> sl.v,
          has_tables |-> PyLen(tables) > 0, table_count |-> PyLen(tables)]

\* The loop of lines 85-110 without the per-document handler: the batch ends at
\* the first document whose entry cannot be built.
RECURSIVE read_documents_aborting(_, _, _)
read_documents_aborting(paths, pdfs, tabs) ==
    IF paths = <<>> \/ ~Head(pdfs).success THEN <<>>
    ELSE << document_entry(Head(paths), Head(pdfs), Head(tabs)) >>
         \o read_documents_aborting(Tail(paths), Tail(pdfs), Tail(tabs))

\* Lines 85-110: one entry per path, in input order.
read_documents(paths, pdfs, tabs) ==
    [i \in 1..Len(paths) |-> document_entry(paths[i], pdfs[i], tabs[i])]

\* Lines 233-246 of _extract_structured_data: what the user message holds of each
\* entry, in order.  doc.get('error') is truthy for every error string written.
extraction_input(contents) ==
    [i \in DOMAIN contents |->
        IF HasKey(contents[i], "error")
        THEN [filename |-> contents[i].filename, error |-> contents[i].error]
        ELSE [filename |-> contents[i].filename,
              has_tables |-> Get(contents[i], "has_tables", FALSE),
              text |-> contents[i].text]]

DocReplies ==
    { [extracted_data |-> {"company_name"}, missing_data |-> <<"VAT">>, inconsistencies |-> <<>>,
       document_summaries |-> <<"summary">>, confidence_score |-> Num("0.85")],
      [extracted_data |-> {}, missing_data |-> <<>>, inconsistencies |-> <<>>,
       document_summaries |-> <<>>, confidence_score |-> Str("high")] }

DocLLM ==
    { [kind |-> k, reply |-> EmptyDict] : k \in {"api_error", "bad_json"} }
    \cup { [kind |-> "json", reply |-> r] : r \in DocReplies }

\* f"{x:.0%}" raises on a value that is not a number.
PercentFormats(x) == x.t = "num"

\* Lines 115-137: the summary lines of 119-122 are inside the try, so a reply
\* whose confidence_score does not format is replaced by the minimal structure.
analyze_documents(contents, llm) ==
    IF llm.kind = "json" /\ PercentFormats(Get(llm.reply, "confidence_score", Num("0")))
    THEN llm.reply
    ELSE [extracted_data |-> {}, missing_data |-> <<"Analysis failed - check documents">>,
          inconsistencies |-> <<>>, document_summaries |-> <<>>,
          confidence_score |-> Num("0.0"), error |-> "analysis"]

DocCallFailed(llm) ==
    ~(llm.kind = "json" /\ PercentFormats(Get(llm.reply, "confidence_score", Num("0"))))

----------------------------------------------------------------------------
(* SupplierEvaluationWorkflow._extract_policy_questions *)

LowerWord(w) ==
    CASE w = "EXPORT"     -> "export"
      [] w = "Export"     -> "export"
      [] w = "License"    -> "license"
      [] w = "OECD"       -> "oecd"
      [] w = "Compliance" -> "compliance"
      [] w = "Check"      -> "check"
      [] w = "Review"     -> "review"
      [] w = "Search"     -> "search"
      [] w = "Verify"     -> "verify"
      [] w = "Extract"    -> "extract"
      [] w = "Assess"     -> "assess"
      [] w = "Identify"   -> "identify"
      [] w = "Acme Ltd"   -> "acme ltd"
      [] w = "UK"         -> "uk"
      [] w = "AE"         -> "ae"
      [] OTHER            -> w

\* str.lower() of a task given by its words.
Lower(words) == [i \in DOMAIN words |-> LowerWord(words[i])]

\* kw in word, for lower-case words of the vocabulary.
WordContains(word, kw) ==
    \/ word = kw
    \/ word = "licenses" /\ kw = "license"
    \/ word = "regulations" /\ kw = "regulation"
    \/ word = "exports" /\ kw = "export"

\* kw in task_lower; the words of a task are joined by single spaces.
Contains(task_lower, kw) ==
    IF kw = "due diligence"
    THEN \E i \in DOMAIN task_lower :
            /\ i + 1 \in DOMAIN task_lower
            /\ task_lower[i] = "due" /\ task_lower[i + 1] = "diligence"
    ELSE \E i \in DOMAIN task_lower : WordContains(task_lower[i], kw)

Q_EXPORT     == "What export licenses and permits are required?"
Q_COMPLIANCE == "What are the key compliance requirements for supplier onboarding?"
Q_OECD       == "What are OECD due diligence requirements?"

\* The keyword tests applied to the task as written, without lower().
TaskQuestionsCaseSensitive(task) ==
    LET tl == task.v IN
    (IF Contains(tl, "export") \/ Contains(tl, "license") THEN {Q_EXPORT} ELSE {})
    \cup (IF Contains(tl, "compliance") \/ Contains(tl, "regulation") THEN {Q_COMPLIANCE} ELSE {})
    \cup (IF Contains(tl, "due diligence") \/ Contains(tl, "oecd") THEN {Q_OECD} ELSE {})

TaskQuestions(task) ==
    LET tl == Lower(task.v) IN
    (IF Contains(tl, "export") \/ Contains(tl, "license") THEN {Q_EXPORT} ELSE {})
    \cup (IF Contains(tl, "compliance") \/ Contains(tl, "regulation") THEN {Q_COMPLIANCE} ELSE {})
    \cup (IF Contains(tl, "due diligence") \/ Contains(tl, "oecd") THEN {Q_OECD} ELSE {})

\* The orders list(set(questions)) can have: set iteration order is unspecified.
Orders(S) == { q \in [1..Cardinality(S) -> S] : \A i, j \in 1..Cardinality(S) : i # j => q[i] # q[j] }

\* [raised, orders]: task.lower() raises AttributeError on a task that is no str;
\* otherwise the possible return values questions[:3].
extract_policy_questions(plan) ==
    LET tasks == Get(plan, "tasks", <<>>) IN
    IF \E i \in DOMAIN tasks : tasks[i].t # "str"
    THEN [raised |-> TRUE, orders |-> {}]
    ELSE [raised |-> FALSE,
          orders |-> { SubSeq(q, 1, Min(3, Len(q))) :
                       q \in Orders(UNION { TaskQuestions(tasks[i]) : i \in DOMAIN tasks }) }]

----------------------------------------------------------------------------
(* Agent 3: RAGAgent.answer_question / answer_multiple_questions *)

\* Per question: chunks retrieved and an answer generated, or the answer
\* generation failed (caught inside _generate_answer).
RagOutcomes == {"answered", "generation_error"}

answer_question(question, outcome) ==
    CASE outcome = "answered" ->
           [question |-> question, answer |-> "generated", sources |-> <<"policy.pdf">>,
            confidence |-> Num("0.9"), retrieved_chunks |-> 1]
      [] OTHER ->
           [question |-> question, answer |-> "Error generating answer", sources |-> <<>>,
            confidence |-> Num("0.0"), retrieved_chunks |-> 1, error |-> "generation"]

answer_multiple_questions(questions, outcomes) ==
    [i \in 1..Len(questions) |-> answer_question(questions[i], outcomes[i])]

----------------------------------------------------------------------------
(* MCP-3 registry tools *)

\* check_uk_companies_house never raises; it returns the parsed company or a
\* failure record ('success' False).  The status is under 'company_status'.
CompaniesHouseResults(reg_number) ==
    { [success |-> TRUE, company_name |-> "ACME LIMITED", company_number |-> reg_number,
       company_status |-> st, company_type |-> "ltd"] : st \in {"active", "dissolved"} }
    \cup { [success |-> FALSE, error |-> "Company not found", company_number |-> reg_number] }

verify_business_entity(company_name, country) ==
    [success |-> TRUE, verified |-> FALSE, company_name |-> company_name, country |-> country,
     registry_source |->
        CASE LowerWord(country) = "uk" -> "UK Companies House"
          [] LowerWord(country) = "uae" -> "UAE Ministry of Economy"
          [] LowerWord(country) = "usa" -> "State-specific registries"
          [] OTHER -> "National Registry",
     recommendation |-> "Use country-specific registry tools for detailed verification"]

UpperWord(w) == IF w = "uk" THEN "UK" ELSE w          \* str.upper() on the country codes used

----------------------------------------------------------------------------
(* MCP-4 sanctions data: check_name_against_sanctions *)

\* A str is the sequence of its characters.
Chars == {"a", "b", "A", " "}

LowerChar(c) == CASE c = "A" -> "a" [] c = "B" -> "b" [] OTHER -> c

StrLower(str) == [i \in DOMAIN str |-> LowerChar(str[i])]              \* str.lower()

RECURSIVE LStrip(_)
LStrip(str) == IF str # <<>> /\ Head(str) = " " THEN LStrip(Tail(str)) ELSE str

RECURSIVE RStrip(_)
RStrip(str) ==
    IF str # <<>> /\ str[Len(str)] = " " THEN RStrip(SubSeq(str, 1, Len(str) - 1)) ELSE str

StrStrip(str) == RStrip(LStrip(str))                                   \* str.strip()

\* x in y, both str
StrIn(x, y) == \E i \in 0..(Len(y) - Len(x)) : SubSeq(y, i + 1, i + Len(x)) = x

\* [e for e in entries if cond(e)]
RECURSIVE Partial(_, _)
Partial(entries, name_lower) ==
    IF entries = <<>> THEN <<>>
    ELSE (IF StrIn(name_lower, Head(entries)) \/ StrIn(Head(entries), name_lower)
          THEN << Head(entries) >> ELSE <<>>)
         \o Partial(Tail(entries), name_lower)

\* The matcher comparing the name as given, without lower() and strip().
check_name_verbatim(name, sanctions_data) ==
    LET entities == Get(sanctions_data, "entities", <<>>)
        individuals == Get(sanctions_data, "individuals", <<>>)
        exact == name \in SeqToSet(entities) \/ name \in SeqToSet(individuals)
        partial == Partial(entities, name) \o Partial(individuals, name)
    IN  [searched_name |-> name, exact_match |-> exact,
         risk_level |-> IF exact THEN "blocked" ELSE IF partial # <<>> THEN "warning" ELSE "clear"]

\* Lines 229-269.
check_name_against_sanctions(name, sanctions_data) ==
    LET name_lower == StrStrip(StrLower(name))
        entities == Get(sanctions_data, "entities", <<>>)
        individuals == Get(sanctions_data, "individuals", <<>>)
        entity_match == name_lower \in SeqToSet(entities)
        individual_match == name_lower \in SeqToSet(individuals)
        entity_partial == Partial(entities, name_lower)
        individual_partial == Partial(individuals, name_lower)
    IN  [searched_name |-> name,
         exact_match |-> entity_match \/ individual_match,
         entity_exact_match |-> entity_match,
         individual_exact_match |-> individual_match,
         partial_matches |->
            [entities |-> SubSeq(entity_partial, 1, Min(5, Len(entity_partial))),
             individuals |-> SubSeq(individual_partial, 1, Min(5, Len(individual_partial)))],
         risk_level |->
            IF entity_match \/ individual_match THEN "blocked"
            ELSE IF entity_partial # <<>> \/ individual_partial # <<>> THEN "warning"
            ELSE "clear"]

----------------------------------------------------------------------------
(* MCP-2 news tools *)

MaxNewsResults == 5       \* max_news_results

PositiveKeywords ==
    {"award", "win", "success", "growth", "profit", "expansion", "innovation", "achievement",
     "excellence", "breakthrough", "record", "leading", "pioneer", "sustainable", "approved",
     "partnership", "collaboration", "contract", "milestone"}

NegativeKeywords ==
    {"fraud", "scandal", "lawsuit", "fine", "penalty", "investigation", "violation", "bankrupt",
     "loss", "decline", "failure", "breach", "controversy", "criticized", "accused", "suspended",
     "illegal", "complaint", "dispute", "problem", "issue", "concern", "risk"}

\* analyze_sentiment: the text is given by the set of keywords that occur in it
\* (keyword in text_lower); confidence in hundredths.
\* The result is a dict.
analyze_sentiment(text) ==
    LET positive_count == Cardinality(PositiveKeywords \cap text)
        negative_count == Cardinality(NegativeKeywords \cap text)
    IN  IF positive_count > negative_count
        THEN [t |-> "dict", sentiment |-> "positive",
              confidence |-> Min(60 + (positive_count - negative_count) * 10, 95)]
        ELSE IF negative_count > positive_count
        THEN [t |-> "dict", sentiment |-> "negative",
              confidence |-> Min(60 + (negative_count - positive_count) * 10, 95)]
        ELSE [t |-> "dict", sentiment |-> "neutral", confidence |-> 50]

\* value == "literal": a dict never equals a str.
PyEqStr(value, s) == value.t = "str" /\ value.v = s

\* search_news never raises; on failure 'articles' is empty.
NewsResults ==
    { [success |-> FALSE, articles |-> <<>>, article_count |-> 0],
      [success |-> TRUE, articles |-> <<>>, article_count |-> 0],
      [success |-> TRUE, article_count |-> 2,
       articles |-> << [title |-> "Acme wins award", description |-> {"win", "award", "growth"}],
                       [title |-> "Acme accused of fraud", description |-> {"accused", "fraud"}] >>] }

----------------------------------------------------------------------------
(* Agent 4: ExternalAgent *)

determine_overall_sentiment(positive, negative, neutral) ==
    LET total == positive + negative + neutral IN
    IF total = 0 THEN "no_coverage"
    ELSE IF negative > positive + neutral THEN "mostly_negative"
    ELSE IF positive > negative + neutral THEN "mostly_positive"
    ELSE IF negative > 0 /\ positive > 0 THEN "mixed"
    ELSE "neutral"

RiskLevels == {"clear", "warning", "blocked"}

\* mcp_tools.sanctions_tools.check_sanctions_list: its result for a company and owners.
SanctionsResults(owners) ==
    { [company_match |-> [risk_level |-> l],
       owner_matches |-> [i \in 1..Len(owners) |-> [name |-> owners[i], risk_level |-> f[i]]]] :
      l \in RiskLevels, f \in [1..Len(owners) -> RiskLevels] }

\* mcp_tools.sanctions_tools.check_watchlist
WatchlistResults == { [status |-> "clear"] }

Signal(kind, detail) == [signal |-> kind, detail |-> detail]

\* Step 1 without the country-specific branch: always the lookup by name.
registry_step_generic(intel, company_name, country, reg_number, prov) ==
    IF prov.registry_raises
    THEN [intel EXCEPT !.company_registry = [error |-> "registry"]]
    ELSE [intel EXCEPT
            !.company_registry = verify_business_entity(company_name, country),
            !.data_sources = Append(@, "Business Registry")]

\* Step 1 (lines 107-129), applied to the intelligence record.
registry_step(intel, company_name, country, reg_number, prov) ==
    IF prov.registry_raises
    THEN [intel EXCEPT !.company_registry = [error |-> "registry"]]
    ELSE IF UpperWord(country) = "UK" /\ reg_number # ""
    THEN LET registry_result == prov.uk IN
         [intel EXCEPT
            !.company_registry = registry_result,
            !.data_sources = Append(@, "UK Companies House"),
            !.risk_signals =
                IF Get(registry_result, "status", "None") # "Active"
                THEN Append(@, Signal("Company status", Get(registry_result, "status", "Unknown")))
                ELSE @]
    ELSE [intel EXCEPT
            !.company_registry = verify_business_entity(company_name, country),
            !.data_sources = Append(@, "Business Registry")]

RECURSIVE CountSentiment(_, _)
CountSentiment(sentiments, label) ==
    IF sentiments = <<>> THEN 0
    ELSE (IF label = "neutral"
          THEN (IF ~PyEqStr(Head(sentiments), "positive") /\ ~PyEqStr(Head(sentiments), "negative")
                THEN 1 ELSE 0)
          ELSE (IF PyEqStr(Head(sentiments), label) THEN 1 ELSE 0))
         + CountSentiment(Tail(sentiments), label)

RECURSIVE NegativeSignals(_, _)
NegativeSignals(articles, sentiments) ==
    IF articles = <<>> THEN <<>>
    ELSE (IF ~PyEqStr(Head(sentiments), "positive") /\ PyEqStr(Head(sentiments), "negative")
          THEN << Signal("Negative news", Head(articles).title) >> ELSE <<>>)
         \o NegativeSignals(Tail(articles), Tail(sentiments))

\* Step 2 (lines 131-189).
news_step(intel, prov) ==
    IF prov.news_raises
    THEN [intel EXCEPT !.news_analysis = [error |-> "news"]]
    ELSE LET articles == prov.news.articles IN
    IF articles # <<>>
    THEN LET sentiments == [i \in DOMAIN articles |-> analyze_sentiment(articles[i].description)]
             with_sentiment == [i \in DOMAIN articles |->
                                  [title |-> articles[i].title,
                                   description |-> articles[i].description,
                                   sentiment |-> sentiments[i]]]
             positive_count == CountSentiment(sentiments, "positive")
             negative_count == CountSentiment(sentiments, "negative")
             neutral_count  == CountSentiment(sentiments, "neutral")
         IN [intel EXCEPT
               !.risk_signals = @ \o NegativeSignals(articles, sentiments),
               !.news_analysis =
                   [total_articles |-> Len(with_sentiment),
                    articles |-> SubSeq(with_sentiment, 1, Min(MaxNewsResults, Len(with_sentiment))),
                    sentiment_summary |-> [positive |-> positive_count, negative |-> negative_count,
                                           neutral |-> neutral_count],
                    overall_sentiment |->
                        determine_overall_sentiment(positive_count, negative_count, neutral_count)],
               !.data_sources = Append(@, "NewsAPI")]
    ELSE [intel EXCEPT
            !.news_analysis =
                [total_articles |-> 0, articles |-> <<>>,
                 sentiment_summary |-> [positive |-> 0, negative |-> 0, neutral |-> 0],
                 overall_sentiment |-> "no_coverage"]]

RECURSIVE OwnerSignals(_)
OwnerSignals(matches) ==
    IF matches = <<>> THEN <<>>
    ELSE (IF Get(Head(matches), "risk_level", "None") = "blocked"
          THEN << Signal("CRITICAL: Owner/Director on sanctions list", Head(matches).name) >>
          ELSE <<>>)
         \o OwnerSignals(Tail(matches))

\* Step 3 (lines 191-227).
sanctions_step(intel, prov) ==
    IF prov.sanctions_raises
    THEN [intel EXCEPT !.sanctions_check = [error |-> "sanctions"]]
    ELSE LET sanctions_result == prov.sanctions
             company_level == Get(Get(sanctions_result, "company_match", EmptyDict), "risk_level", "None")
         IN [intel EXCEPT
               !.sanctions_check = sanctions_result,
               !.data_sources = @ \o << "EU Consolidated Sanctions List", "OFAC SDN List",
                                        "UN Security Council Sanctions" >>,
               !.risk_signals =
                   (@ \o (IF company_level = "blocked"
                          THEN << Signal("CRITICAL: Company found on sanctions list", "") >>
                          ELSE IF company_level = "warning"
                          THEN << Signal("WARNING: Partial match on sanctions list", "") >>
                          ELSE <<>>))
                   \o OwnerSignals(Get(sanctions_result, "owner_matches", <<>>))]

\* Step 4 calling the watchlist provider whatever the registration number.
watchlist_step_always(intel, reg_number, prov) ==
    IF prov.watchlist_raises
    THEN [intel EXCEPT !.watchlist_check = [error |-> "watchlist"]]
    ELSE [intel EXCEPT !.watchlist_check = prov.watchlist,
                       !.data_sources = Append(@, "Risk Watchlists")]

\* Step 4 (lines 229-247).
watchlist_step(intel, reg_number, prov) ==
    IF reg_number # ""
    THEN IF prov.watchlist_raises
         THEN [intel EXCEPT !.watchlist_check = [error |-> "watchlist"]]
         ELSE [intel EXCEPT !.watchlist_check = prov.watchlist,
                            !.data_sources = Append(@, "Risk Watchlists")]
    ELSE [intel EXCEPT !.watchlist_check =
              [status |-> "skipped", reason |-> "No registration number provided"]]

\* gather_intelligence with one failure boundary around the four steps.
gather_intelligence_single_guard(company_name, country, reg_number, owners, prov) ==
    LET intelligence == [company_registry |-> EmptyDict, news_analysis |-> EmptyDict,
                         sanctions_check |-> EmptyDict, watchlist_check |-> EmptyDict,
                         risk_signals |-> <<>>, data_sources |-> <<>>]
        s1 == registry_step(intelligence, company_name, country, reg_number, prov)
        s2 == news_step(s1, prov)
        s3 == sanctions_step(s2, prov)
    IN  IF prov.registry_raises THEN s1
        ELSE IF prov.news_raises THEN s2
        ELSE IF prov.sanctions_raises THEN s3
        ELSE watchlist_step(s3, reg_number, prov)

gather_intelligence(company_name, country, reg_number, owners, prov) ==
    LET intelligence == [company_registry |-> EmptyDict, news_analysis |-> EmptyDict,
                         sanctions_check |-> EmptyDict, watchlist_check |-> EmptyDict,
                         risk_signals |-> <<>>, data_sources |-> <<>>]
        s1 == registry_step(intelligence, company_name, country, reg_number, prov)
        s2 == news_step(s1, prov)
        s3 == sanctions_step(s2, prov)
    IN  watchlist_step(s3, reg_number, prov)

----------------------------------------------------------------------------
(* Agent 5: DecisionAgent *)

FullDecision(level, conf) ==
    [risk_level |-> level, confidence_score |-> conf, reasoning |-> "llm",
     positive_factors |-> <<"Active registration">>, negative_factors |-> <<"Missing VAT certificate">>,
     recommended_actions |-> <<"Request VAT certificate">>, decision_summary |-> "llm",
     evidence_trail |-> [document_agent |-> "llm", external_agent |-> "llm"]]

\* The replies of the decision call that json.loads turns into an object.
DecisionReplies ==
    { FullDecision(l, Num("0.85")) : l \in {"Low", "High", "Critical"} }
    \cup { FullDecision("Medium", Str("high")) }
    \cup { [confidence_score |-> Num("0.5"), reasoning |-> "llm"] }

DecisionLLM ==
    { [kind |-> k, reply |-> EmptyDict] : k \in {"api_error", "bad_json"} }
    \cup { [kind |-> "json", reply |-> r] : r \in DecisionReplies }

\* decision[k] = val
SetKey(d, k, val) == [x \in DOMAIN d \cup {k} |-> IF x = k THEN val ELSE d[x]]

\* _generate_decision, lines 133-296: [raised, v].
generate_decision(name, plan, doc, rag, ext, llm) ==
    IF ~PercentFormats(Get(doc, "confidence_score", Num("0")))     \* line 257
    THEN [raised |-> TRUE, v |-> EmptyDict]
    ELSE IF llm.kind # "json"                                       \* lines 279-290
    THEN [raised |-> TRUE, v |-> EmptyDict]
    ELSE [raised |-> FALSE,
          v |-> SetKey(SetKey(llm.reply, "evaluated_at", "t1"), "supplier_name", name)]

safe_default_decision ==
    [risk_level |-> "High", confidence_score |-> Num("0.0"),
     reasoning |-> "Unable to complete risk assessment due to error",
     positive_factors |-> <<>>,
     negative_factors |-> <<"Assessment incomplete due to technical error">>,
     recommended_actions |-> <<"Re-evaluate supplier with complete data">>,
     decision_summary |-> "Risk assessment failed - manual review required",
     evidence_trail |-> EmptyDict, error |-> "decision"]

\* Lines 96-130: the summary lines 107-112 are inside the try.
DecisionProduced(g) ==
    ~g.raised /\ PercentFormats(Get(g.v, "confidence_score", Num("0")))

make_decision(name, plan, doc, rag, ext, llm) ==
    LET g == generate_decision(name, plan, doc, rag, ext, llm) IN
    IF DecisionProduced(g) THEN g.v ELSE safe_default_decision

----------------------------------------------------------------------------
(* SupplierEvaluationWorkflow: the graph and evaluate_supplier *)

Names            == {"Acme Ltd"}
Countries        == {"uk", "AE"}
BusinessContexts == {""}
RegNumbers       == {"", "00000000"}

MaxDocs   == 2
MaxOwners == 1

PathPool  == <<"invoice.pdf", "certificate.pdf", "registration.pdf", "accounts.pdf">>
OwnerPool == <<"John Smith", "Jane Doe", "Ali Khan">>

DocumentPathSets == { <<>>, SubSeq(PathPool, 1, MaxDocs) }
OwnerSets        == { <<>>, SubSeq(OwnerPool, 1, MaxOwners) }

Nodes == <<"planner", "document", "rag", "external", "decision">>

\* The edges of _build_workflow, lines 96-101.
next_node_skipping(node) ==
    CASE node = "planner"  -> "document"
      [] node = "document" -> "rag"
      [] node = "rag"      -> "decision"
      [] node = "external" -> "decision"
      [] OTHER             -> "END"

next_node(node) ==
    CASE node = "planner"  -> "document"
      [] node = "document" -> "rag"
      [] node = "rag"      -> "external"
      [] node = "external" -> "decision"
      [] OTHER             -> "END"

\* What a node's handler writes into the stage's field: lines 160, 191, 217, 247.
error_value_unset(msg) == EmptyDict

error_value(msg) == [error |-> msg]

\* ... and line 127 for the plan.
failed_plan == [tasks |-> <<>>, reasoning |-> "Failed"]

\* workflow_status as the decision node sets it, lines 241 and 248.
status_after_decision_any_error(raised, errs) ==
    IF raised \/ errs # <<>> THEN "failed" ELSE "completed"

\* The handler of lines 244-248 without its assignment of line 248.
status_after_decision_left_running(raised, errs) == IF raised THEN "running" ELSE "completed"

status_after_decision(raised, errs) == IF raised THEN "failed" ELSE "completed"

\* Whether an agent call of this step raises past the agent's own handlers:
\* never with the agents as written, a choice under the fault hypotheses.
StageFaults == IF env = "code" THEN {FALSE} ELSE BOOLEAN

\* The state built by lines 314-330.
InitialState(e) ==
    /\ env = e
    /\ pc = "planner"
    /\ ran = <<>>
    /\ reasoning_failed = {}
    /\ documents_content = <<>>
    /\ calls = {}
    /\ call = [fn |-> "none"]
    /\ result = [done |-> FALSE]
    /\ supplier_name \in Names
    /\ supplier_country \in Countries
    /\ business_context \in BusinessContexts
    /\ document_paths \in DocumentPathSets
    /\ registration_number \in RegNumbers
    /\ owner_names \in OwnerSets
    /\ evaluation_plan = EmptyDict
    /\ document_analysis = EmptyDict
    /\ rag_answers = EmptyDict
    /\ external_intelligence = EmptyDict
    /\ final_decision = EmptyDict
    /\ workflow_status = "running"
    /\ errors = <<>>
    /\ started_at = "t0"
    /\ completed_at = ""

Init == InitialState("code")

\* A planner node that also empties the caller's document list.
run_planner_clearing_paths ==
    /\ pc = "planner"
    /\ evaluation_plan' = failed_plan
    /\ document_paths' = <<>>
    /\ pc' = next_node("planner")
    /\ ran' = Append(ran, "planner")
    /\ UNCHANGED <<env, supplier_name, supplier_country, business_context, registration_number,
                   owner_names, reasoning_failed, documents_content, calls, harness,
                   document_analysis, rag_answers, external_intelligence, final_decision, meta>>

\* Node 1, lines 107-129.
run_planner ==
    /\ pc = "planner"
    /\ \E llm \in PlannerLLM, raises \in StageFaults :
         IF raises
         THEN /\ errors' = Append(errors, "Planner")
              /\ evaluation_plan' = failed_plan
              /\ UNCHANGED reasoning_failed
         ELSE /\ evaluation_plan' = create_evaluation_plan(supplier_name, supplier_country, llm)
              /\ reasoning_failed' =
                    IF PlannerCallFailed(llm) THEN reasoning_failed \cup {"planner"} ELSE reasoning_failed
              /\ UNCHANGED errors
    /\ pc' = next_node("planner")
    /\ ran' = Append(ran, "planner")
    /\ UNCHANGED <<env, identity, documents_content, calls, harness, document_analysis, rag_answers,
                   external_intelligence, final_decision, workflow_status, started_at, completed_at>>

\* The calls analyze_documents makes, and how far it can have got when it raises:
\* before the first document, after the last one, or after the reasoning call.
DocCalls == {"read_pdf", "extract_tables", "document_reasoning"}
DocCallPrefixes == { {}, {"read_pdf", "extract_tables"}, DocCalls }

\* The analysis of lines 149-154 with nothing reported missing.
no_documents_analysis_silent ==
    [extracted_data |-> {}, missing_data |-> <<>>,
     inconsistencies |-> <<>>, confidence_score |-> Num("0.0")]

\* What the node writes when there are no document paths, lines 148-154.
no_documents_analysis ==
    [extracted_data |-> {}, missing_data |-> <<"No documents provided">>,
     inconsistencies |-> <<>>, confidence_score |-> Num("0.0")]

\* Node 2, lines 132-162.
run_document_agent ==
    /\ pc = "document"
    /\ IF document_paths # <<>>
       THEN \E pdfs \in [1..Len(document_paths) -> ReadPdfResults],
               tabs \in [1..Len(document_paths) -> ExtractTablesResults],
               llm \in DocLLM, raises \in StageFaults :
              IF raises
              THEN /\ errors' = Append(errors, "Document Agent")
                   /\ document_analysis' = error_value("document")
                   /\ \E made \in DocCallPrefixes : calls' = calls \cup made
                   /\ UNCHANGED <<reasoning_failed, documents_content>>
              ELSE /\ documents_content' = read_documents(document_paths, pdfs, tabs)
                   /\ calls' = calls \cup DocCalls
                   /\ document_analysis' = analyze_documents(documents_content', llm)
                   /\ reasoning_failed' =
                         IF DocCallFailed(llm) THEN reasoning_failed \cup {"document"}
                         ELSE reasoning_failed
                   /\ UNCHANGED errors
       ELSE /\ document_analysis' = no_documents_analysis
            /\ UNCHANGED <<errors, reasoning_failed, documents_content, calls>>
    /\ pc' = next_node("document")
    /\ ran' = Append(ran, "document")
    /\ UNCHANGED <<env, identity, harness, evaluation_plan, rag_answers, external_intelligence,
                   final_decision, workflow_status, started_at, completed_at>>

\* The calls answer_multiple_questions makes for a non-empty question list:
\* the retriever and the answer generation.
RagCalls == {"retrieve", "policy_reasoning"}

\* Node 3, lines 165-193.
run_rag_agent ==
    /\ pc = "rag"
    /\ LET x == extract_policy_questions(evaluation_plan) IN
       IF x.raised
       THEN /\ errors' = Append(errors, "RAG Agent")
            /\ rag_answers' = error_value("rag")
            /\ UNCHANGED calls
       ELSE \E questions \in x.orders :
              IF questions # <<>>
              THEN \E outcomes \in [1..Len(questions) -> RagOutcomes], raises \in StageFaults :
                     /\ calls' = calls \cup RagCalls
                     /\ IF raises
                        THEN /\ errors' = Append(errors, "RAG Agent")
                             /\ rag_answers' = error_value("rag")
                        ELSE /\ rag_answers' =
                                   [questions |-> questions,
                                    answers |-> answer_multiple_questions(questions, outcomes)]
                             /\ UNCHANGED errors
              ELSE /\ rag_answers' = [questions |-> <<>>, answers |-> <<>>]
                   /\ UNCHANGED <<errors, calls>>
    /\ pc' = next_node("rag")
    /\ ran' = Append(ran, "rag")
    /\ UNCHANGED <<env, identity, reasoning_failed, documents_content, harness,
                   evaluation_plan, document_analysis, external_intelligence, final_decision,
                   workflow_status, started_at, completed_at>>

\* The provider responses of one gather_intelligence call.  check_uk_companies_house
\* and search_news catch every exception themselves.
Providers ==
    [ uk : CompaniesHouseResults(registration_number), registry_raises : {FALSE},
      news : NewsResults, news_raises : {FALSE},
      sanctions : SanctionsResults(owner_names), sanctions_raises : BOOLEAN,
      watchlist : WatchlistResults, watchlist_raises : BOOLEAN ]

\* Node 4, lines 196-219.
run_external_agent ==
    /\ pc = "external"
    /\ \E prov \in Providers, raises \in StageFaults :
         IF raises
         THEN /\ errors' = Append(errors, "External Agent")
              /\ external_intelligence' = error_value("external")
         ELSE /\ external_intelligence' =
                    gather_intelligence(supplier_name, supplier_country,
                                        registration_number, owner_names, prov)
              /\ UNCHANGED errors
    /\ pc' = next_node("external")
    /\ ran' = Append(ran, "external")
    /\ UNCHANGED <<env, identity, reasoning_failed, documents_content, calls, harness,
                   evaluation_plan, document_analysis, rag_answers, final_decision,
                   workflow_status, started_at, completed_at>>

\* Node 5, lines 222-250.
run_decision_agent ==
    /\ pc = "decision"
    /\ \E llm \in DecisionLLM, raises \in StageFaults :
         IF raises
         THEN /\ errors' = Append(errors, "Decision Agent")
              /\ final_decision' = error_value("decision")
              /\ workflow_status' = status_after_decision(TRUE, errors)
              /\ UNCHANGED <<completed_at, reasoning_failed>>
         ELSE /\ final_decision' =
                    make_decision(supplier_name, evaluation_plan, document_analysis,
                                  rag_answers, external_intelligence, llm)
              /\ workflow_status' = status_after_decision(FALSE, errors)
              /\ completed_at' = "t1"
              /\ reasoning_failed' =
                    IF DecisionProduced(generate_decision(supplier_name, evaluation_plan,
                            document_analysis, rag_answers, external_intelligence, llm))
                    THEN reasoning_failed ELSE reasoning_failed \cup {"decision"}
              /\ UNCHANGED errors
    /\ pc' = next_node("decision")
    /\ ran' = Append(ran, "decision")
    /\ UNCHANGED <<env, identity, documents_content, calls, harness, evaluation_plan,
                   document_analysis, rag_answers, external_intelligence, started_at>>

\* evaluate_supplier, lines 334-340: invoke returned, return final_state.
return_final_state ==
    /\ pc = "END"
    /\ pc' = "returned"
    /\ UNCHANGED <<env, history, identity, outputs, meta, harness>>

\* The handler of lines 342-346 missing: the exception reaches the caller.
workflow_reraises ==
    /\ env = "graph_fault"
    /\ pc \in {"planner", "document", "rag", "external", "decision", "END"}
    /\ pc' = "raised"
    /\ UNCHANGED <<env, history, identity, outputs, meta, harness>>

\* evaluate_supplier, lines 342-346: invoke raised; initial_state is returned.  Its
\* output fields are the empty dicts of lines 321-325; its errors list is the object
\* the nodes appended to when the graph hands them the same list, the empty list when
\* the graph copies its input.
workflow_failed ==
    /\ env = "graph_fault"
    /\ pc \in {"planner", "document", "rag", "external", "decision", "END"}
    /\ \E shared \in BOOLEAN :
         errors' = Append(IF shared THEN errors ELSE <<>>, "Workflow")
    /\ workflow_status' = "failed"
    /\ completed_at' = ""
    /\ evaluation_plan' = EmptyDict
    /\ document_analysis' = EmptyDict
    /\ rag_answers' = EmptyDict
    /\ external_intelligence' = EmptyDict
    /\ final_decision' = EmptyDict
    /\ pc' = "returned_failed"
    /\ UNCHANGED <<env, history, identity, started_at, harness>>

Next ==
    \/ run_planner
    \/ run_document_agent
    \/ run_rag_agent
    \/ run_external_agent
    \/ run_decision_agent
    \/ return_final_state

Spec == Init /\ [][Next]_vars

\* The same workflow when an agent call may raise into the node's handler.
InitStageFault == InitialState("stage_fault")
SpecStageFault == InitStageFault /\ [][Next]_vars

\* ... and when the graph run itself may raise into evaluate_supplier's handler.
InitGraphFault == InitialState("graph_fault")
NextGraphFault == Next \/ workflow_failed
SpecGraphFault == InitGraphFault /\ [][NextGraphFault]_vars

\* Every step that is enabled is eventually taken: a run is one synchronous call.
\* Progress is checked for a UK supplier without owners.
InitLive ==
    /\ InitialState("stage_fault")
    /\ supplier_country = "uk"
    /\ owner_names = <<>>
FairSpecStageFault == InitLive /\ [][Next]_vars /\ WF_vars(Next)

----------------------------------------------------------------------------
(* The tool functions called on their own *)

MaxNameLen == 3

QueryNames == UNION { [1..n -> Chars] : n \in 0..MaxNameLen }

EntityPool     == << <<"a", "b">>, <<"a">>, <<"b", " ", "a">> >>
IndividualPool == << <<"b">>, <<"a", " ", "b">> >>

Slices(pool) == { SubSeq(pool, i, j) : i \in 1..(Len(pool) + 1), j \in 0..Len(pool) }

SanctionsData ==
    { [entities |-> e, individuals |-> i] : e \in Slices(EntityPool), i \in Slices(IndividualPool) }

MaxArticles == 3

\* The provider responses of one gather_intelligence call when any of the four
\* steps may raise inside its try block.
FaultyProviders ==
    [ uk : CompaniesHouseResults(registration_number), registry_raises : BOOLEAN,
      news : NewsResults, news_raises : BOOLEAN,
      sanctions : SanctionsResults(owner_names), sanctions_raises : BOOLEAN,
      watchlist : WatchlistResults, watchlist_raises : BOOLEAN ]

MaxTasks == 2

\* Tasks a plan can hold: without a keyword, with each keyword in some case,
\* with keywords of two questions, and a JSON value that is no string.
TaskPool ==
    { StrTask(<<"Search", "news">>),
      StrTask(<<"EXPORT", "permits">>),
      StrTask(<<"License", "review">>),
      StrTask(<<"Compliance", "check">>),
      StrTask(<<"follow", "regulations">>),
      StrTask(<<"Review", "OECD", "guidance">>),
      StrTask(<<"perform", "due", "diligence">>),
      StrTask(<<"Check", "compliance", "with", "export", "regulations", "and", "licenses">>),
      ObjTask }

TaskLists == UNION { [1..n -> TaskPool] : n \in 0..MaxTasks }

ToolCalls ==
    { [fn |-> "check_name_against_sanctions", name |-> n, sanctions_data |-> d] :
        n \in QueryNames, d \in SanctionsData }
    \cup { [fn |-> "determine_overall_sentiment", positive |-> p, negative |-> n, neutral |-> u] :
              p \in 0..MaxArticles, n \in 0..MaxArticles, u \in 0..MaxArticles }
    \cup { [fn |-> "evaluate_supplier", planner |-> l, prov |-> p] :
              l \in PlannerLLM,
              p \in { q \in Providers : ~q.sanctions_raises /\ ~q.watchlist_raises } }
    \cup { [fn |-> "gather_intelligence", prov |-> p] : p \in FaultyProviders }
    \cup { [fn |-> "extract_policy_questions", tasks |-> ts] : ts \in TaskLists }
    \cup { [fn |-> "analyze_documents", paths |-> SubSeq(PathPool, 1, MaxDocs),
             pdfs |-> rs, tabs |-> ts, llm |-> l] :
              rs \in [1..MaxDocs -> ReadPdfResults], ts \in [1..MaxDocs -> ExtractTablesResults],
              l \in DocLLM }

InitTools ==
    /\ env = "tools"
    /\ pc = "tool"
    /\ ran = <<>>
    /\ reasoning_failed = {}
    /\ documents_content = <<>>
    /\ calls = {}
    /\ supplier_name = "Acme Ltd"
    /\ supplier_country \in Countries
    /\ business_context = ""
    /\ document_paths = <<>>
    /\ registration_number \in RegNumbers
    /\ owner_names = <<>>
    /\ call \in ToolCalls
    /\ call.fn # "gather_intelligence" => (supplier_country = "uk" /\ registration_number = "")
    /\ result = [done |-> FALSE]
    /\ evaluation_plan = EmptyDict
    /\ document_analysis = EmptyDict
    /\ rag_answers = EmptyDict
    /\ external_intelligence = EmptyDict
    /\ final_decision = EmptyDict
    /\ workflow_status = "running"
    /\ errors = <<>>
    /\ started_at = "t0"
    /\ completed_at = ""

Returns(value) ==
    /\ ~result.done
    /\ result' = [done |-> TRUE, value |-> value]
    /\ UNCHANGED <<env, pc, history, identity, outputs, meta, call>>

call_check_name_against_sanctions ==
    /\ call.fn = "check_name_against_sanctions" /\ ~result.done
    /\ Returns(check_name_against_sanctions(call.name, call.sanctions_data))

call_determine_overall_sentiment ==
    /\ call.fn = "determine_overall_sentiment" /\ ~result.done
    /\ Returns(determine_overall_sentiment(call.positive, call.negative, call.neutral))

\* The value _run_rag_agent writes, given what _extract_policy_questions did (raised,
\* or returned the questions in the order list(set(...)) took); the retrieval and
\* generation calls answer every question.
policy_answers(raised, questions) ==
    IF raised THEN error_value("rag")
    ELSE IF questions # <<>>
    THEN [questions |-> questions,
          answers |-> answer_multiple_questions(questions, [i \in DOMAIN questions |-> "answered"])]
    ELSE [questions |-> <<>>, answers |-> <<>>]

QuestionOrders(extracted) == IF extracted.raised THEN { <<>> } ELSE extracted.orders

\* Two runs of evaluate_supplier, in two interpreter processes, for one supplier
\* without documents.  Every provider and every reasoning call is a function of its
\* request: the planner's reply and the intelligence are the same in both runs, and
\* the decision replies are the same whenever the decision requests are.
call_evaluate_supplier_twice ==
    /\ call.fn = "evaluate_supplier" /\ ~result.done
    /\ LET plan == create_evaluation_plan(supplier_name, supplier_country, call.planner)
           extracted == extract_policy_questions(plan)
           ext == gather_intelligence(supplier_name, supplier_country, registration_number,
                                      owner_names, call.prov)
       IN \E q1, q2 \in QuestionOrders(extracted), l1, l2 \in DecisionLLM :
            LET rag1 == policy_answers(extracted.raised, q1)
                rag2 == policy_answers(extracted.raised, q2)
            IN /\ rag1 = rag2 => l1 = l2
               /\ Returns([first  |-> make_decision(supplier_name, plan, no_documents_analysis,
                                                     rag1, ext, l1),
                            second |-> make_decision(supplier_name, plan, no_documents_analysis,
                                                     rag2, ext, l2),
                            requests_equal |-> rag1 = rag2])

call_gather_intelligence ==
    /\ call.fn = "gather_intelligence" /\ ~result.done
    /\ Returns(gather_intelligence(supplier_name, supplier_country, registration_number,
                                   owner_names, call.prov))

\* _extract_policy_questions called twice on one plan.
call_extract_policy_questions ==
    /\ call.fn = "extract_policy_questions" /\ ~result.done
    /\ LET extracted == extract_policy_questions([tasks |-> call.tasks]) IN
       \E questions \in QuestionOrders(extracted), again \in QuestionOrders(extracted) :
          Returns([raised |-> extracted.raised, questions |-> questions, again |-> again])

\* analyze_documents: the per-document list, the documents part of the reasoning
\* call's user message, and the analysis returned.
call_analyze_documents ==
    /\ call.fn = "analyze_documents" /\ ~result.done
    /\ LET contents == read_documents(call.paths, call.pdfs, call.tabs) IN
       Returns([documents_content |-> contents,
                user_message |-> extraction_input(contents),
                analysis |-> analyze_documents(contents, call.llm)])

NextTools ==
    \/ call_evaluate_supplier_twice
    \/ call_analyze_documents
    \/ call_extract_policy_questions
    \/ call_gather_intelligence
    \/ call_check_name_against_sanctions
    \/ call_determine_overall_sentiment

SpecTools == InitTools /\ [][NextTools]_vars

----------------------------------------------------------------------------
(* Properties *)

Returned == pc \in {"returned", "returned_failed"}
Ran(node) == node \in SeqToSet(ran)
Logged(label) == label \in SeqToSet(errors)

\* The decision stage did not produce a decision: its reasoning call failed inside
\* make_decision, or the node's handler caught an exception.
DecisionFailed == "decision" \in reasoning_failed \/ Logged("Decision Agent")

\* C1: the five nodes run in the order planner, document, rag, external, decision,
\* each exactly once, whichever stages fail: the nodes run so far are always a prefix
\* of that order, the next node is the one after the prefix, and at the end of the
\* graph all five have run.
C1_FixedOrder ==
    /\ Len(ran) <= Len(Nodes)
    /\ ran = SubSeq(Nodes, 1, Len(ran))
    /\ pc \in SeqToSet(Nodes) => pc = Nodes[Len(ran) + 1]
    /\ pc \in {"END", "returned"} => ran = Nodes

C1_Witness == pc = "returned" /\ ran = Nodes /\ Len(errors) >= 3

\* C2: whichever of the planner, document, policy and external stages raise into
\* their node's handler, each of them has written a non-empty error-flagged value
\* (the failed plan for the planner) into its own field by the time the next node
\* starts, and the decision node is eventually invoked.
C2_FallbackWritten ==
    /\ (Ran("planner") /\ Logged("Planner")) =>
          (evaluation_plan # EmptyDict /\ HasKey(evaluation_plan, "tasks"))
    /\ (Ran("document") /\ Logged("Document Agent")) =>
          (document_analysis # EmptyDict /\ HasKey(document_analysis, "error"))
    /\ (Ran("rag") /\ Logged("RAG Agent")) =>
          (rag_answers # EmptyDict /\ HasKey(rag_answers, "error"))
    /\ (Ran("external") /\ Logged("External Agent")) =>
          (external_intelligence # EmptyDict /\ HasKey(external_intelligence, "error"))

C2_DecisionReached == [](C2_FallbackWritten) /\ <>(Ran("decision"))

C2_Witness ==
    /\ {"Document Agent", "RAG Agent", "External Agent"} \subseteq SeqToSet(errors)
    /\ Ran("decision")

\* C3: evaluate_supplier never lets an exception reach its caller, and when the
\* graph run raises it returns a state with workflow_status failed whose last
\* errors entry is the top-level workflow error.
C3_NoPropagation ==
    /\ pc # "raised"
    /\ pc = "returned_failed" =>
          /\ workflow_status = "failed"
          /\ errors # <<>>
          /\ errors[Len(errors)] = "Workflow"

C3_Witness == pc = "returned_failed" /\ Len(errors) >= 2 /\ Ran("external")

\* C4: when evaluate_supplier returns, each of the five output fields carries
\* every key of its declared schema.
PlanKeys     == {"tasks", "reasoning"}
DocumentKeys == {"extracted_data", "missing_data", "inconsistencies", "document_summaries",
                 "confidence_score"}
RagKeys      == {"questions", "answers"}
ExternalKeys == {"company_registry", "news_analysis", "sanctions_check", "watchlist_check",
                 "risk_signals", "data_sources"}
DecisionKeys == {"risk_level", "confidence_score", "reasoning", "positive_factors",
                 "negative_factors", "recommended_actions", "decision_summary",
                 "evidence_trail", "evaluated_at"}

C4_SchemaComplete ==
    Returned =>
        /\ PlanKeys \subseteq DOMAIN evaluation_plan
        /\ DocumentKeys \subseteq DOMAIN document_analysis
        /\ RagKeys \subseteq DOMAIN rag_answers
        /\ ExternalKeys \subseteq DOMAIN external_intelligence
        /\ DecisionKeys \subseteq DOMAIN final_decision

\* C5: when the external intelligence handed to the decision stage holds a blocked
\* sanctions result (company or an owner) or an inactive or dissolved registry
\* status, the final risk level is High.
SanctionsBlocked(ext) ==
    LET sc == Get(ext, "sanctions_check", EmptyDict)
        owners == Get(sc, "owner_matches", <<>>)
    IN  \/ Get(Get(sc, "company_match", EmptyDict), "risk_level", "None") = "blocked"
        \/ \E i \in DOMAIN owners : owners[i].risk_level = "blocked"

RegistryInactive(ext) ==
    LET reg == Get(ext, "company_registry", EmptyDict) IN
    \/ Get(reg, "company_status", "None") \in {"inactive", "dissolved"}
    \/ Get(reg, "status", "None") \in {"inactive", "dissolved", "Inactive", "Dissolved"}

C5_OverrideHigh ==
    (pc = "returned" /\ (SanctionsBlocked(external_intelligence)
                          \/ RegistryInactive(external_intelligence)))
        => Get(final_decision, "risk_level", "None") = "High"

\* C6: workflow_status of the returned state is failed only if the decision stage
\* failed or the returned state holds no final decision at all (the graph run
\* raised); a run that returns from the graph in which at most the four upstream
\* stages failed is completed.
C6_FailedOnlyByDecision ==
    Returned =>
        /\ workflow_status = "failed" => (DecisionFailed \/ final_decision = EmptyDict)
        /\ (pc = "returned" /\ ~DecisionFailed) => workflow_status = "completed"

C6_Witness ==
    /\ pc = "returned"
    /\ Logged("Planner") /\ Logged("External Agent")
    /\ ~DecisionFailed
    /\ workflow_status = "completed"

\* C7: if the decision stage's reasoning call raises or its output does not parse,
\* the returned state has workflow_status failed.
C7_ReasoningFailureFails ==
    (pc = "returned" /\ "decision" \in reasoning_failed) => workflow_status = "failed"

\* C8: whenever the decision stage cannot produce a decision, final_decision of the
\* returned state is the safe default: risk High, confidence 0.0, the
\* assessment-incomplete marker and the re-evaluate action.
IsSafeDefault(d) ==
    /\ Get(d, "risk_level", "None") = "High"
    /\ Get(d, "confidence_score", Num("none")) = Num("0.0")
    /\ "Assessment incomplete due to technical error" \in SeqToSet(Get(d, "negative_factors", <<>>))
    /\ "Re-evaluate supplier with complete data" \in SeqToSet(Get(d, "recommended_actions", <<>>))

C8_SafeDefault == (pc = "returned" /\ DecisionFailed) => IsSafeDefault(final_decision)

\* C9: if the planner's reasoning call fails, the plan has exactly the 7 fallback
\* tasks, and the decision stage is still run.
C9_SevenTasks ==
    "planner" \in reasoning_failed =>
        /\ HasKey(evaluation_plan, "tasks")
        /\ Len(evaluation_plan.tasks) = 7

C9_FallbackPlan == [](C9_SevenTasks) /\ <>Ran("decision")

C9_Witness == pc = "returned" /\ "planner" \in reasoning_failed /\ Ran("decision")

\* C10: once the planner stage has run, evaluation_plan.tasks is a non-empty list.
C10_TasksNonEmpty ==
    Ran("planner") => (HasKey(evaluation_plan, "tasks") /\ evaluation_plan.tasks # <<>>)

\* C11: when document_paths is empty the document stage makes no reader, table or
\* reasoning call, logs no error, and writes confidence_score 0.0, missing_data
\* ["No documents provided"] and empty extracted_data and inconsistencies.
C11_SkipWithoutCalls ==
    (document_paths = <<>> /\ Ran("document")) =>
        /\ calls \cap DocCalls = {}
        /\ ~Logged("Document Agent")
        /\ "document" \notin reasoning_failed
        /\ Get(document_analysis, "confidence_score", Num("none")) = Num("0.0")
        /\ Get(document_analysis, "missing_data", <<>>) = <<"No documents provided">>
        /\ Get(document_analysis, "extracted_data", {"none"}) = {}
        /\ Get(document_analysis, "inconsistencies", <<"none">>) = <<>>

C11_Witness ==
    /\ document_paths = <<>> /\ pc = "returned" /\ Logged("Planner")
    /\ document_analysis = no_documents_analysis

\* C12: check_name_against_sanctions returns blocked exactly when the trimmed,
\* lower-cased name equals an entry of the entity or individual list, warning
\* exactly when no entry equals it but some entry contains it or is contained in
\* it, and clear otherwise.
Called(fn) == call.fn = fn /\ result.done

C12_MatcherLevels ==
    Called("check_name_against_sanctions") =>
        LET query == StrStrip(StrLower(call.name))
            entries == SeqToSet(call.sanctions_data.entities)
                         \cup SeqToSet(call.sanctions_data.individuals)
            exact == \E e \in entries : e = query
            partial == \E e \in entries : StrIn(query, e) \/ StrIn(e, query)
        IN  /\ result.value.risk_level = "blocked" <=> exact
            /\ result.value.risk_level = "warning" <=> (~exact /\ partial)
            /\ result.value.risk_level = "clear" <=> (~exact /\ ~partial)

C12_Witness ==
    /\ Called("check_name_against_sanctions")
    /\ call.name = <<"A", "b", " ">>
    /\ result.value.risk_level = "blocked"

\* C13: the sentiment aggregate is mixed for the counts of [positive, positive,
\* negative], mostly_positive for [positive, positive, positive] and no_coverage
\* for no articles.
C13_Aggregate ==
    Called("determine_overall_sentiment") =>
        LET counts == <<call.positive, call.negative, call.neutral>> IN
        /\ counts = <<2, 1, 0>> => result.value = "mixed"
        /\ counts = <<3, 0, 0>> => result.value = "mostly_positive"
        /\ counts = <<0, 0, 0>> => result.value = "no_coverage"

\* C14: two runs of evaluate_supplier with the same supplier identity and the same
\* deterministic providers return the same risk_level, the same set of
\* positive_factors and the same set of negative_factors.
C14_SameDecision ==
    Called("evaluate_supplier") =>
        LET d1 == result.value.first
            d2 == result.value.second
        IN  /\ Get(d1, "risk_level", "None") = Get(d2, "risk_level", "None")
            /\ SeqToSet(Get(d1, "positive_factors", <<>>)) = SeqToSet(Get(d2, "positive_factors", <<>>))
            /\ SeqToSet(Get(d1, "negative_factors", <<>>)) = SeqToSet(Get(d2, "negative_factors", <<>>))

\* C15: whenever evaluate_supplier returns, final_decision.risk_level is one of
\* Low, Medium, High.
C15_RiskLevelEnum ==
    Returned =>
        /\ HasKey(final_decision, "risk_level")
        /\ final_decision.risk_level \in {"Low", "Medium", "High"}

\* C16: every stage whose reasoning call failed has an entry naming it in errors,
\* and the entries of errors are in stage order, one per stage at most.
StageLabel(node) ==
    CASE node = "planner"  -> "Planner"
      [] node = "document" -> "Document Agent"
      [] node = "rag"      -> "RAG Agent"
      [] node = "external" -> "External Agent"
      [] node = "decision" -> "Decision Agent"

StageIndex(label) ==
    CASE label = "Planner"        -> 1
      [] label = "Document Agent" -> 2
      [] label = "RAG Agent"      -> 3
      [] label = "External Agent" -> 4
      [] label = "Decision Agent" -> 5
      [] OTHER                    -> 6

C16_FailuresLogged ==
    /\ \A node \in reasoning_failed : Logged(StageLabel(node))
    /\ \A i, j \in DOMAIN errors : i < j => StageIndex(errors[i]) < StageIndex(errors[j])

\* C17: a step of a stage node changes, of the state's fields, only the node's own
\* output (the decision node: final_decision, workflow_status and completed_at)
\* and errors, to which it appends at most one entry naming the stage; the other
\* stages' outputs and the six identity fields are unchanged.
NodeFrame ==
    /\ pc # "planner"  => UNCHANGED evaluation_plan
    /\ pc # "document" => UNCHANGED document_analysis
    /\ pc # "rag"      => UNCHANGED rag_answers
    /\ pc # "external" => UNCHANGED external_intelligence
    /\ pc # "decision" => UNCHANGED <<final_decision, workflow_status, completed_at>>
    /\ UNCHANGED <<identity, started_at>>
    /\ errors' = errors \/ errors' = Append(errors, StageLabel(pc))

NodeStepFrame == (pc \in SeqToSet(Nodes)) => NodeFrame

C17_StageFrame == [][NodeStepFrame]_vars

C17_Witness ==
    /\ pc = "returned"
    /\ document_paths # <<>> /\ owner_names # <<>>
    /\ errors # <<>>
    /\ \A i \in 1..5 : outputs[i] # EmptyDict

\* C18: for every news article the sentiment scorer scores negative, the external
\* stage appends a risk signal citing the article's title and counts it in
\* sentiment_summary.negative; positive-scored articles are counted in
\* sentiment_summary.positive.
ScoredAs(articles, label) == { i \in DOMAIN articles : articles[i].sentiment.sentiment = label }

C18_NegativeNewsSignalled ==
    LET news == Get(external_intelligence, "news_analysis", EmptyDict)
        articles == Get(news, "articles", <<>>)
    IN  (pc = "returned" /\ articles # <<>>) =>
            /\ \A i \in ScoredAs(articles, "negative") :
                   Signal("Negative news", articles[i].title)
                       \in SeqToSet(external_intelligence.risk_signals)
            /\ news.sentiment_summary.negative = Cardinality(ScoredAs(articles, "negative"))
            /\ news.sentiment_summary.positive = Cardinality(ScoredAs(articles, "positive"))

\* C19: after the sanctions step risk_signals holds a critical signal for every
\* blocked result (the company match and each owner match) and a warning signal
\* for every warning result (the company match and each owner match).
C19_SanctionsEscalated ==
    LET sc == Get(external_intelligence, "sanctions_check", EmptyDict)
        signals == SeqToSet(Get(external_intelligence, "risk_signals", <<>>))
        company == Get(Get(sc, "company_match", EmptyDict), "risk_level", "None")
        owners == Get(sc, "owner_matches", <<>>)
    IN  (Ran("external") /\ HasKey(sc, "company_match")) =>
            /\ company = "blocked" =>
                   Signal("CRITICAL: Company found on sanctions list", "") \in signals
            /\ company = "warning" =>
                   Signal("WARNING: Partial match on sanctions list", "") \in signals
            /\ \A i \in DOMAIN owners :
                   /\ owners[i].risk_level = "blocked" =>
                          Signal("CRITICAL: Owner/Director on sanctions list", owners[i].name)
                              \in signals
                   /\ owners[i].risk_level = "warning" =>
                          \E sg \in signals : sg.detail = owners[i].name

\* C20: in gather_intelligence an exception in any of the registry, news, sanctions
\* and watchlist checks leaves an error value in that check's field only; every
\* other check still records its result, and gather_intelligence returns.
CheckRaised(field) ==
    CASE field = "company_registry" -> call.prov.registry_raises
      [] field = "news_analysis"    -> call.prov.news_raises
      [] field = "sanctions_check"  -> call.prov.sanctions_raises
      [] field = "watchlist_check"  -> call.prov.watchlist_raises /\ registration_number # ""

CheckFields == {"company_registry", "news_analysis", "sanctions_check", "watchlist_check"}

C20_ChecksIsolated ==
    (call.fn = "gather_intelligence" /\ result.done) =>
        \A field \in CheckFields :
            IF CheckRaised(field)
            THEN DOMAIN result.value[field] = {"error"}
            ELSE /\ result.value[field] # EmptyDict
                 /\ DOMAIN result.value[field] # {"error"}

C20_Witness ==
    /\ call.fn = "gather_intelligence" /\ result.done
    /\ registration_number # ""
    /\ {f \in CheckFields : CheckRaised(f)} = {"company_registry"}
    /\ HasKey(result.value.news_analysis, "total_articles")
    /\ HasKey(result.value.sanctions_check, "company_match")
    /\ result.value.watchlist_check = [status |-> "clear"]

\* C21: gather_intelligence records the UK Companies House result exactly when the
\* country is UK and a registration number is given, and the by-name lookup's
\* result otherwise; when the looked-up status is not active, a company-status
\* risk signal is among the risk signals.
UkRoute == supplier_country \in {"uk", "UK"} /\ registration_number # ""

StatusSignals(signals) == { i \in DOMAIN signals : signals[i].signal = "Company status" }

C21_RegistryRouting ==
    (Called("gather_intelligence") /\ ~call.prov.registry_raises) =>
        LET registry == result.value.company_registry IN
        /\ UkRoute <=> (registry = call.prov.uk /\ HasKey(registry, "company_number"))
        /\ ~UkRoute <=> (HasKey(registry, "registry_source") /\ HasKey(registry, "verified"))
        /\ (HasKey(registry, "company_status") /\ registry.company_status # "active")
               => StatusSignals(result.value.risk_signals) # {}

C21_Witness ==
    /\ Called("gather_intelligence") /\ ~call.prov.registry_raises
    /\ UkRoute
    /\ result.value.company_registry.success
    /\ result.value.company_registry.company_status = "dissolved"
    /\ StatusSignals(result.value.risk_signals) # {}

\* C22: without a registration number the watchlist provider is not called:
\* watchlist_check is the skipped record with its reason, it is not empty and not
\* an error value, no watchlist source is recorded and errors gets no entry from
\* the external stage.
C22_WatchlistSkipped ==
    (Ran("external") /\ registration_number = "") =>
        LET watchlist_check == Get(external_intelligence, "watchlist_check", EmptyDict) IN
        /\ watchlist_check # EmptyDict
        /\ Get(watchlist_check, "status", "None") = "skipped"
        /\ HasKey(watchlist_check, "reason")
        /\ ~HasKey(watchlist_check, "error")
        /\ "Risk Watchlists" \notin SeqToSet(external_intelligence.data_sources)
        /\ ~Logged("External Agent")

C22_Witness ==
    /\ pc = "returned" /\ registration_number = ""
    /\ external_intelligence.watchlist_check.status = "skipped"
    /\ HasKey(external_intelligence.sanctions_check, "error")

\* C23: in analyze_documents a document whose read failed does not end the batch:
\* the per-document list has one entry per path in input order, the failed
\* document's entry carries an error marker and its text is not in the reasoning
\* call's input, and the reasoning call is still made over all entries.
C23_ReadFailureIsolated ==
    Called("analyze_documents") =>
        LET contents == result.value.documents_content
            message == result.value.user_message
        IN  /\ Len(contents) = Len(call.paths)
            /\ Len(message) = Len(call.paths)
            /\ \A i \in DOMAIN call.paths :
                   /\ contents[i].filename = call.paths[i]
                   /\ message[i].filename = call.paths[i]
                   /\ ~call.pdfs[i].success =>
                          /\ HasKey(contents[i], "error")
                          /\ ~HasKey(message[i], "text")
            /\ result.value.analysis # EmptyDict

C23_Witness ==
    /\ Called("analyze_documents")
    /\ ~call.pdfs[1].success /\ call.pdfs[2].success
    /\ HasKey(result.value.documents_content[1], "error")
    /\ Len(result.value.documents_content) = Len(call.paths)
    /\ HasKey(result.value.analysis, "document_summaries")

\* C24: for every document the reader read successfully, the entry given to the
\* extraction reasoning call carries the document's text cut to at most 10,000
\* characters and its table indicator, and no error marker.
C24_ReadTextCapped ==
    Called("analyze_documents") =>
        \A i \in DOMAIN call.paths :
            call.pdfs[i].success =>
                LET entry == result.value.user_message[i] IN
                /\ ~HasKey(entry, "error")
                /\ HasKey(entry, "has_tables")
                /\ HasKey(entry, "text")
                /\ entry.text = Min(call.pdfs[i].text, TextCap)

\* Some task holds one of the keywords, whatever the case of its letters.
Mentions(tasks, keywords) ==
    \E i \in DOMAIN tasks, kw \in keywords : Contains(Lower(tasks[i].v), kw)

\* C25: _extract_policy_questions returns at most 3 questions, no question twice,
\* and exactly the export question iff a task holds "export" or "license", the
\* compliance question iff a task holds "compliance" or "regulation", and the
\* due-diligence question iff a task holds "due diligence" or "oecd", in any case.
C25_QuestionsByKeyword ==
    (Called("extract_policy_questions") /\ ~result.value.raised) =>
        LET questions == result.value.questions IN
        /\ Len(questions) <= 3
        /\ \A i, j \in DOMAIN questions : i # j => questions[i] # questions[j]
        /\ SeqToSet(questions) \subseteq {Q_EXPORT, Q_COMPLIANCE, Q_OECD}
        /\ Q_EXPORT \in SeqToSet(questions) <=> Mentions(call.tasks, {"export", "license"})
        /\ Q_COMPLIANCE \in SeqToSet(questions) <=> Mentions(call.tasks, {"compliance", "regulation"})
        /\ Q_OECD \in SeqToSet(questions) <=> Mentions(call.tasks, {"due diligence", "oecd"})

C25_Witness ==
    /\ Called("extract_policy_questions")
    /\ call.tasks = << StrTask(<<"EXPORT", "permits">>),
                       StrTask(<<"Check", "compliance", "with", "export", "regulations", "and", "licenses">>) >>
    /\ result.value.questions = << Q_EXPORT, Q_COMPLIANCE >>

\* No task of the plan holds a policy keyword.
NoPolicyTask(plan) ==
    LET tasks == Get(plan, "tasks", <<>>) IN
    ~Mentions(tasks, {"export", "license", "compliance", "regulation", "due diligence", "oecd"})

\* C26: when no task of the plan holds a policy keyword (an empty task list
\* included), the policy stage makes no retriever or reasoning call, writes
\* rag_answers = {questions: [], answers: []} and appends nothing to errors.
C26_NoQuestionNoCall ==
    (Ran("rag") /\ NoPolicyTask(evaluation_plan)) =>
        /\ calls \cap RagCalls = {}
        /\ rag_answers = [questions |-> <<>>, answers |-> <<>>]
        /\ ~Logged("RAG Agent")

\* C27: for one task list _extract_policy_questions returns the same questions
\* in the same order on every call.
C27_SameQuestionOrder ==
    Called("extract_policy_questions") => result.value.questions = result.value.again

\* C28: when gather_intelligence returns, data_sources names the source of each
\* category that was checked: the registry, the news search (also one that found
\* no article), the sanctions lists, and the watchlist when it was consulted.
C28_SourcesNamed ==
    Called("gather_intelligence") =>
        LET sources == SeqToSet(result.value.data_sources) IN
        /\ ~call.prov.registry_raises =>
               \E source \in sources : source \in {"UK Companies House", "Business Registry"}
        /\ (~call.prov.news_raises /\ call.prov.news.success) => "NewsAPI" \in sources
        /\ ~call.prov.sanctions_raises =>
               {"EU Consolidated Sanctions List", "OFAC SDN List",
                "UN Security Council Sanctions"} \subseteq sources
        /\ (~call.prov.watchlist_raises /\ registration_number # "") =>
               "Risk Watchlists" \in sources

\* C29: when the UK Companies House lookup succeeds and reports the company as
\* active, gather_intelligence appends no company-status risk signal.
C29_ActiveNoStatusSignal ==
    ( /\ Called("gather_intelligence") /\ UkRoute /\ ~call.prov.registry_raises
      /\ call.prov.uk.success /\ call.prov.uk.company_status = "active" ) =>
        StatusSignals(result.value.risk_signals) = {}

\* C30: the state evaluate_supplier returns has workflow_status completed or
\* failed, never running, and its completed_at is a non-empty timestamp exactly
\* when workflow_status is completed.
C30_StatusAndCompletion ==
    pc \in {"returned", "returned_failed"} =>
        /\ workflow_status \in {"completed", "failed"}
        /\ completed_at # "" <=> workflow_status = "completed"

C30_Witness ==
    /\ pc = "returned" /\ Ran("decision") /\ Logged("Decision Agent")
    /\ workflow_status = "failed" /\ completed_at = ""
    /\ started_at # ""

====
